---- MODULE Spec2Model ----
(***************************************************************************)
(* bevy-potree: the `multiple` example harness (load_configs, load,        *)
(* spawn_replays) and the render-graph node PointCloudNode::run, as one    *)
(* state machine.  A frame is                                              *)
(*     update (spawn_replays) -> extract (asset resolution, GPU upload)    *)
(*     -> render (run, on the view and pipelines the world then holds)     *)
(*     -> last (FrameCount += 1, or the AppExit that was sent takes        *)
(*     effect).                                                            *)
(* Asset resolution and upload are written in the extract phase only: the  *)
(* two systems of src/ read asset state in `run` alone, so a resolution at *)
(* any other moment is observed exactly as one in the next extract phase.  *)
(***************************************************************************)
EXTENDS Integers, Sequences, FiniteSets, TLC

\* ---------------------------------------------------------------- bounds
\* <count> of the command line ranges over 0..MaxCount
MaxCount == 2
\* <frames> of the command line ranges over 0..MaxFrames
MaxFrames == 1
\* the two log counters saturate at MaxLog
MaxLog == 2

\* <case> of the command line: the five flag bits of load_configs
Cases == 0..31

\* viewport sizes (width, height) of the extracted view
Viewports == {<<8, 8>>, <<9, 15>>, <<1920, 1088>>}

\* number of points stored in assets/replay<n>.opd (the files' content)
PointsOf(n) == n + 1

\* Handle::default(): the null handle, which no store entry carries
DefaultHandle == 0

VARIABLES
    count, frames, case,   \* the command line
    configs,               \* Res<LoadConfigs>
    frame,                 \* Res<FrameCount>
    pc,                    \* phase of the current frame
    handles,               \* Local<Vec<Handle<PointCloudAsset>>> of spawn_replays
    entities,              \* the spawned PotreePointCloud entities, in spawn order
    store,                 \* the asset handle store: store[h] is the entry of handle h
    gpu,                   \* RenderAssets<PointCloudAsset>: handles with a GPU resource
    uploadCount,           \* per handle, the GPU allocations made for it
    loadLog,               \* every call of load so far
    crashed,               \* "none", or why the process panicked
    exitSent,              \* AppExit was sent
    view,                  \* the view input run got this frame
    pipelineReady,         \* pipeline_cache.get_render_pipeline(..) was Some
    eyeDomeReady,          \* pipeline_cache.get_compute_pipeline(..) was Some
    bindGroupReady,        \* PointCloudBindGroup.bind_group was Some
    cmds,                  \* the commands run encoded this frame
    result,                \* what run returned this frame
    noPipelineLogs,        \* "No pipeline" lines printed
    noBindGroupLogs        \* "No bind group" lines printed

vars == <<count, frames, case, configs, frame, pc, handles, entities, store, gpu,
          uploadCount, loadLog, crashed, exitSent, view, pipelineReady,
          eyeDomeReady, bindGroupReady, cmds, result, noPipelineLogs,
          noBindGroupLogs>>

\* ------------------------------------------------------------ load_configs
\* (case & (1 << b)) != 0
Bit(c, b) == ((c \div (2 ^ b)) % 2) = 1

BoolToInt(b) == IF b THEN 1 ELSE 0

\* load_configs with the early and the delay bit exchanged
load_configs_SwapBits(cnt, frms, cs) ==
    LET direct == Bit(cs, 4)
        auto   == Bit(cs, 3)
        early  == Bit(cs, 1)
        delay  == Bit(cs, 2)
        same   == Bit(cs, 0)
    IN  [k \in 1..cnt |->
            LET i == k - 1
            IN  [direct |-> direct,
                 auto   |-> auto,
                 early  |-> early,
                 delay  |-> frms * (BoolToInt(delay) * i + 1),
                 name   |-> BoolToInt(~same) * i]]

load_configs(cnt, frms, cs) ==
    LET direct == Bit(cs, 4)
        auto   == Bit(cs, 3)
        early  == Bit(cs, 2)
        delay  == Bit(cs, 1)
        same   == Bit(cs, 0)
    IN  [k \in 1..cnt |->
            LET i == k - 1
            IN  [direct |-> direct,
                 auto   |-> auto,
                 early  |-> early,
                 delay  |-> frms * (BoolToInt(delay) * i + 1),
                 name   |-> BoolToInt(~same) * i]]

\* --------------------------------------------------- the asset handle store
\* register_path that hands out one entry per distinct path
register_path_Dedup(st, path) ==
    IF \E h \in 1..Len(st) : st[h].kind = "path" /\ st[h].path = path
    THEN st
    ELSE Append(st, [state |-> "Pending", kind |-> "path", path |-> path,
                     points |-> PointsOf(path)])

\* asset_server.load(path): a Pending entry, resolved out of band
register_path(st, path) ==
    Append(st, [state |-> "Pending", kind |-> "path", path |-> path,
                points |-> PointsOf(path)])

\* asset_server.add(asset): Resolved at once, GPU upload still to come
insert_resolved(st, asset) ==
    Append(st, [state |-> "Resolved", kind |-> "tracked", path |-> asset.path,
                points |-> asset.points])

\* assets.add(asset): outside the tracked pending/resolved machinery
insert_direct_gpu(st, asset) ==
    Append(st, [state |-> "Direct", kind |-> "direct", path |-> asset.path,
                points |-> asset.points])

\* poll(handle)
poll(st, h) ==
    IF h \in 1..Len(st) THEN st[h].state ELSE "Pending"

\* OpdLoader::load_opd on the bytes of assets/replay<name>.opd
load_opd(name) == [path |-> name, points |-> PointsOf(name)]

\* -------------------------------------------------------------------- load
\* load panics: nothing is returned, nothing is stored
LoadPanic(s, i, site, why) ==
    [s EXCEPT !.crashed = why,
              !.handle = DefaultHandle,
              !.log = Append(@, [cfg |-> i, frame |-> frame, site |-> site,
                                 auto |-> configs[i].auto,
                                 direct |-> configs[i].direct,
                                 behaviour |-> "panic_" \o why,
                                 handle |-> DefaultHandle, stored |-> 0])]

\* load returns the handle of the entry it appended to the store
LoadReturn(s, i, site, newStore, behaviour) ==
    [s EXCEPT !.store = newStore,
              !.handle = Len(newStore),
              !.log = Append(@, [cfg |-> i, frame |-> frame, site |-> site,
                                 auto |-> configs[i].auto,
                                 direct |-> configs[i].direct,
                                 behaviour |-> behaviour,
                                 handle |-> Len(newStore),
                                 stored |-> Len(newStore) - Len(s.store)])]

\* load with the two insertions of the manual path exchanged
load_SwapDirect(s, config, i, site, readOK) ==
    IF config.auto
    THEN IF config.direct
         THEN LoadPanic(s, i, site, "assert")
         ELSE LoadReturn(s, i, site, register_path(s.store, config.name),
                         "register_path")
    ELSE IF ~readOK
         THEN LoadPanic(s, i, site, "io")
         ELSE IF config.direct
              THEN LoadReturn(s, i, site,
                              insert_resolved(s.store, load_opd(config.name)),
                              "insert_resolved")
              ELSE LoadReturn(s, i, site,
                              insert_direct_gpu(s.store, load_opd(config.name)),
                              "insert_direct_gpu")

\* load without the assert!(!config.direct)
load_NoAssert(s, config, i, site, readOK) ==
    IF config.auto
    THEN LoadReturn(s, i, site, register_path(s.store, config.name),
                    "register_path")
    ELSE IF ~readOK
         THEN LoadPanic(s, i, site, "io")
         ELSE IF config.direct
              THEN LoadReturn(s, i, site,
                              insert_direct_gpu(s.store, load_opd(config.name)),
                              "insert_direct_gpu")
              ELSE LoadReturn(s, i, site,
                              insert_resolved(s.store, load_opd(config.name)),
                              "insert_resolved")

\* fn load(asset_server, assets, config) -> Handle<PointCloudAsset>
\* readOK: File::open, read_to_end and load_opd all returned Ok (else unwrap panics)
load(s, config, i, site, readOK) ==
    IF config.auto
    THEN IF config.direct
         THEN LoadPanic(s, i, site, "assert")
         ELSE LoadReturn(s, i, site, register_path(s.store, config.name),
                         "register_path")
    ELSE IF ~readOK
         THEN LoadPanic(s, i, site, "io")
         ELSE LET point_cloud == load_opd(config.name)
              IN  IF config.direct
                  THEN LoadReturn(s, i, site,
                                  insert_direct_gpu(s.store, point_cloud),
                                  "insert_direct_gpu")
                  ELSE LoadReturn(s, i, site,
                                  insert_resolved(s.store, point_cloud),
                                  "insert_resolved")

\* ----------------------------------------------------------- spawn_replays
\* if frames.0 == 1 { *handles = configs.iter().map(..).collect() }
RECURSIVE EarlyLoads(_, _, _)
EarlyLoads(s, i, readOK) ==
    IF i > Len(configs) \/ s.crashed # "none"
    THEN s
    ELSE IF configs[i].early
         THEN LET r == load(s, configs[i], i, "early", readOK[i])
              IN  EarlyLoads([r EXCEPT !.hs = Append(@, r.handle)], i + 1, readOK)
         ELSE EarlyLoads([s EXCEPT !.hs = Append(@, DefaultHandle)], i + 1, readOK)

\* commands.spawn(PotreePointCloud { mesh, point_size: 2.0 })
PotreePointCloud(i, mesh) == [cfg |-> i, mesh |-> mesh, point_size |-> 2]

\* a spawn loop that takes the held handle whenever the list has one, early or not
RECURSIVE SpawnLoop_UsesPlaceholder(_, _, _)
SpawnLoop_UsesPlaceholder(s, i, readOK) ==
    IF i > Len(configs) \/ s.crashed # "none"
    THEN s
    ELSE IF configs[i].delay = frame
         THEN IF configs[i].early \/ i <= Len(s.hs)
              THEN IF i > Len(s.hs)
                   THEN [s EXCEPT !.crashed = "index"]
                   ELSE SpawnLoop_UsesPlaceholder(
                            [s EXCEPT !.spawned =
                                Append(@, PotreePointCloud(i, s.hs[i]))],
                            i + 1, readOK)
              ELSE LET r == load(s, configs[i], i, "spawn", readOK[i])
                   IN  IF r.crashed # "none"
                       THEN r
                       ELSE SpawnLoop_UsesPlaceholder(
                                [r EXCEPT !.spawned =
                                    Append(@, PotreePointCloud(i, r.handle))],
                                i + 1, readOK)
         ELSE SpawnLoop_UsesPlaceholder(s, i + 1, readOK)

\* for (i, config) in configs.iter().enumerate() { if config.delay == frames.0 {..} }
RECURSIVE SpawnLoop(_, _, _)
SpawnLoop(s, i, readOK) ==
    IF i > Len(configs) \/ s.crashed # "none"
    THEN s
    ELSE IF configs[i].delay = frame
         THEN IF configs[i].early
              THEN IF i > Len(s.hs)
                   THEN [s EXCEPT !.crashed = "index"]
                   ELSE SpawnLoop([s EXCEPT !.spawned =
                                      Append(@, PotreePointCloud(i, s.hs[i]))],
                                  i + 1, readOK)
              ELSE LET r == load(s, configs[i], i, "spawn", readOK[i])
                   IN  IF r.crashed # "none"
                       THEN r
                       ELSE SpawnLoop([r EXCEPT !.spawned =
                                          Append(@, PotreePointCloud(i, r.handle))],
                                      i + 1, readOK)
         ELSE SpawnLoop(s, i + 1, readOK)

\* if frames.0 == configs.first().unwrap().delay * 3 + configs.last().unwrap().delay
ExitCheck(s) ==
    IF s.crashed # "none"
    THEN s
    ELSE IF Len(configs) = 0
         THEN [s EXCEPT !.crashed = "unwrap"]
         ELSE [s EXCEPT !.exit =
                  (frame = configs[1].delay * 3 + configs[Len(configs)].delay)]

spawn_replays ==
    /\ pc = "update"
    /\ crashed = "none"
    /\ \E readOK \in [1..Len(configs) -> BOOLEAN] :
          LET s0 == [store |-> store, log |-> loadLog, crashed |-> "none",
                     handle |-> DefaultHandle, hs |-> handles,
                     spawned |-> <<>>, exit |-> FALSE]
              s1 == IF frame = 1
                    THEN EarlyLoads([s0 EXCEPT !.hs = <<>>], 1, readOK)
                    ELSE s0
              s2 == SpawnLoop(s1, 1, readOK)
              s3 == ExitCheck(s2)
          IN  /\ store' = s3.store
              /\ loadLog' = s3.log
              /\ crashed' = s3.crashed
              /\ handles' = IF s1.crashed = "none" THEN s1.hs ELSE handles
              /\ entities' = IF s3.crashed = "none"
                             THEN entities \o s3.spawned
                             ELSE entities
              /\ exitSent' = (exitSent \/ s3.exit)
    /\ pc' = "extract"
    /\ UNCHANGED <<count, frames, case, configs, frame, gpu, uploadCount, view,
                   pipelineReady, eyeDomeReady, bindGroupReady, cmds, result,
                   noPipelineLogs, noBindGroupLogs>>

\* ------------------------------------------------- asset resolution, upload
Handles == 1..Len(store)

\* an asset server that resolves an entry again after it reached a terminal state
AssetServerResolve_Reload(h) ==
    /\ pc = "extract"
    /\ crashed = "none"
    /\ h \in Handles
    /\ store[h].kind = "path"
    /\ \E outcome \in {"Resolved", "Failed"} :
          store' = [store EXCEPT ![h].state = outcome]
    /\ UNCHANGED <<count, frames, case, configs, frame, pc, handles, entities, gpu,
                   uploadCount, loadLog, crashed, exitSent, view, pipelineReady,
                   eyeDomeReady, bindGroupReady, cmds, result, noPipelineLogs,
                   noBindGroupLogs>>

\* the asset server finishes the I/O + decode of a registered path
AssetServerResolve(h) ==
    /\ pc = "extract"
    /\ crashed = "none"
    /\ h \in Handles
    /\ store[h].state = "Pending"
    /\ \E outcome \in {"Resolved", "Failed"} :
          store' = [store EXCEPT ![h].state = outcome]
    /\ UNCHANGED <<count, frames, case, configs, frame, pc, handles, entities, gpu,
                   uploadCount, loadLog, crashed, exitSent, view, pipelineReady,
                   eyeDomeReady, bindGroupReady, cmds, result, noPipelineLogs,
                   noBindGroupLogs>>

\* an uploader that does not look whether the asset already has its resource
Upload_NoGuard(h) ==
    /\ pc = "extract"
    /\ crashed = "none"
    /\ h \in Handles
    /\ store[h].state \in {"Resolved", "Direct"}
    /\ gpu' = gpu \cup {h}
    /\ uploadCount' = [uploadCount EXCEPT ![h] = @ + 1]
    /\ UNCHANGED <<count, frames, case, configs, frame, pc, handles, entities, store,
                   loadLog, crashed, exitSent, view, pipelineReady, eyeDomeReady,
                   bindGroupReady, cmds, result, noPipelineLogs, noBindGroupLogs>>

\* the GPU resource uploader: buffers + bind group of a resolved asset
Upload(h) ==
    /\ pc = "extract"
    /\ crashed = "none"
    /\ h \in Handles
    /\ store[h].state \in {"Resolved", "Direct"}
    /\ h \notin gpu
    /\ gpu' = gpu \cup {h}
    /\ uploadCount' = [uploadCount EXCEPT ![h] = @ + 1]
    /\ UNCHANGED <<count, frames, case, configs, frame, pc, handles, entities, store,
                   loadLog, crashed, exitSent, view, pipelineReady, eyeDomeReady,
                   bindGroupReady, cmds, result, noPipelineLogs, noBindGroupLogs>>

\* ------------------------------------------------------ the render world
\* what graph.get_input_entity / query.get_manual can give run
NoSlot == [kind |-> "slot_error", w |-> 0, h |-> 0]
NoView == [kind |-> "no_view", w |-> 0, h |-> 0]
Views == {NoSlot, NoView} \cup {[kind |-> "view", w |-> vp[1], h |-> vp[2]] : vp \in Viewports}

\* the view variable before run has been executed in a frame
Unextracted == [kind |-> "unextracted", w |-> 0, h |-> 0]

\* crash = delay && (direct || early || (auto && same)): the observed crash of
\* the plugin when an entity is spawned on a later frame than another one
DocumentedCrash ==
    \E e \in 1..Len(entities), d \in 1..Len(entities) :
        LET c == configs[entities[e].cfg]
            o == configs[entities[d].cfg]
        IN  /\ c.delay = frame
            /\ o.delay < frame
            /\ (c.direct \/ c.early \/ (c.auto /\ c.name = o.name))

\* the extraction phase that ends the frame's asset resolution and upload and
\* hands the frame to the render node, unless the plugin crashes
Extract ==
    /\ pc = "extract"
    /\ crashed = "none"
    /\ IF DocumentedCrash
       THEN crashed' = "documented" /\ UNCHANGED pc
       ELSE pc' = "render" /\ UNCHANGED crashed
    /\ UNCHANGED <<count, frames, case, configs, frame, handles, entities, store, gpu,
                   uploadCount, loadLog, exitSent, view, pipelineReady, eyeDomeReady,
                   bindGroupReady, cmds, result, noPipelineLogs, noBindGroupLogs>>

\* ---------------------------------------------------- PointCloudNode::run
Cmd(op, h, x, y, z) == [op |-> op, h |-> h, x |-> x, y |-> y, z |-> z]

\* the draw loop without the `if point_cloud_asset.is_none() { continue; }`
RECURSIVE DrawLoop_NoSkip(_, _, _)
DrawLoop_NoSkip(ents, render_assets, st) ==
    IF ents = <<>>
    THEN <<>>
    ELSE LET point_cloud == Head(ents)
         IN  <<Cmd("set_bind_group", point_cloud.mesh, 1, 0, 0),
               Cmd("draw", point_cloud.mesh, 4, st[point_cloud.mesh].points, 0)>>
             \o DrawLoop_NoSkip(Tail(ents), render_assets, st)

\* for (point_cloud,) in self.entity_query.iter_manual(&world) { .. }
RECURSIVE DrawLoop(_, _, _)
DrawLoop(ents, render_assets, st) ==
    IF ents = <<>>
    THEN <<>>
    ELSE LET point_cloud == Head(ents)
             rest == DrawLoop(Tail(ents), render_assets, st)
         IN  IF point_cloud.mesh \notin render_assets
             THEN rest
             ELSE <<Cmd("set_bind_group", point_cloud.mesh, 1, 0, 0),
                    Cmd("draw", point_cloud.mesh, 4, st[point_cloud.mesh].points, 0)>>
                  \o rest

\* render_pass.dispatch_workgroups(view.viewport.z / 8, view.viewport.w / 8, 1)
DispatchGrid(v) == <<v.w \div 8, v.h \div 8, 1>>

\* the compute pass of run
ComputePass(v) ==
    LET g == DispatchGrid(v)
    IN  <<Cmd("begin_compute_pass", 0, 0, 0, 0),
          Cmd("set_compute_pipeline", 0, 0, 0, 0),
          Cmd("set_bind_group", 0, 0, 0, 0),
          Cmd("dispatch_workgroups", 0, g[1], g[2], g[3]),
          Cmd("end_compute_pass", 0, 0, 0, 0)>>

RunOut(res, c, lp, lb) == [result |-> res, cmds |-> c, logPipeline |-> lp,
                           logBindGroup |-> lb]

\* run with the query failure propagated like the missing input slot
run_ViewErr(v, pipeline, eye_dome_pipeline, bind_group, ents, render_assets, st) ==
    IF v.kind \in {"slot_error", "no_view"}
    THEN RunOut("Err", <<>>, 0, 0)
    ELSE LET begun == <<Cmd("begin_render_pass", 0, 0, 0, 0)>>
             ended == <<Cmd("end_render_pass", 0, 0, 0, 0)>>
         IN  IF ~pipeline \/ ~eye_dome_pipeline
             THEN RunOut("Ok", begun \o ended, 1, 0)
             ELSE IF ~bind_group
             THEN RunOut("Ok",
                         begun \o <<Cmd("set_pipeline", 0, 0, 0, 0)>> \o ended, 0, 1)
             ELSE RunOut("Ok",
                         begun
                         \o <<Cmd("set_pipeline", 0, 0, 0, 0),
                              Cmd("set_bind_group", 0, 0, 0, 0),
                              Cmd("set_vertex_buffer", 0, 0, 0, 0)>>
                         \o DrawLoop(ents, render_assets, st)
                         \o ended
                         \o ComputePass(v),
                         0, 0)

\* run without the drop(render_pass) before the compute pass
run_NoDrop(v, pipeline, eye_dome_pipeline, bind_group, ents, render_assets, st) ==
    IF v.kind = "slot_error"
    THEN RunOut("Err", <<>>, 0, 0)
    ELSE IF v.kind = "no_view"
    THEN RunOut("Ok", <<>>, 0, 0)
    ELSE LET begun == <<Cmd("begin_render_pass", 0, 0, 0, 0)>>
             ended == <<Cmd("end_render_pass", 0, 0, 0, 0)>>
         IN  IF ~pipeline \/ ~eye_dome_pipeline
             THEN RunOut("Ok", begun \o ended, 1, 0)
             ELSE IF ~bind_group
             THEN RunOut("Ok",
                         begun \o <<Cmd("set_pipeline", 0, 0, 0, 0)>> \o ended, 0, 1)
             ELSE RunOut("Ok",
                         begun
                         \o <<Cmd("set_pipeline", 0, 0, 0, 0),
                              Cmd("set_bind_group", 0, 0, 0, 0),
                              Cmd("set_vertex_buffer", 0, 0, 0, 0)>>
                         \o DrawLoop(ents, render_assets, st)
                         \o ComputePass(v)
                         \o ended,
                         0, 0)

\* fn run(&self, graph, render_context, world) -> Result<(), NodeRunError>
run(v, pipeline, eye_dome_pipeline, bind_group, ents, render_assets, st) ==
    IF v.kind = "slot_error"
    THEN RunOut("Err", <<>>, 0, 0)
    ELSE IF v.kind = "no_view"
    THEN RunOut("Ok", <<>>, 0, 0)
    ELSE LET begun == <<Cmd("begin_render_pass", 0, 0, 0, 0)>>
             ended == <<Cmd("end_render_pass", 0, 0, 0, 0)>>
         IN  IF ~pipeline \/ ~eye_dome_pipeline
             THEN RunOut("Ok", begun \o ended, 1, 0)
             ELSE IF ~bind_group
             THEN RunOut("Ok",
                         begun \o <<Cmd("set_pipeline", 0, 0, 0, 0)>> \o ended, 0, 1)
             ELSE RunOut("Ok",
                         begun
                         \o <<Cmd("set_pipeline", 0, 0, 0, 0),
                              Cmd("set_bind_group", 0, 0, 0, 0),
                              Cmd("set_vertex_buffer", 0, 0, 0, 0)>>
                         \o DrawLoop(ents, render_assets, st)
                         \o ended
                         \o ComputePass(v),
                         0, 0)

Saturate(n) == IF n < MaxLog THEN n + 1 ELSE MaxLog

\* a node that despawns the entities it could not draw
NodeRun_DropsUnready ==
    /\ pc = "render"
    /\ crashed = "none"
    /\ \E v \in Views, p \in BOOLEAN, e \in BOOLEAN, b \in BOOLEAN :
          LET out == run(v, p, e, b, entities, gpu, store)
          IN  /\ view' = v
              /\ pipelineReady' = p
              /\ eyeDomeReady' = e
              /\ bindGroupReady' = b
              /\ cmds' = out.cmds
              /\ result' = out.result
              /\ noPipelineLogs' = IF out.logPipeline = 1
                                   THEN Saturate(noPipelineLogs) ELSE noPipelineLogs
              /\ noBindGroupLogs' = IF out.logBindGroup = 1
                                    THEN Saturate(noBindGroupLogs)
                                    ELSE noBindGroupLogs
    /\ entities' = SelectSeq(entities, LAMBDA pcl : pcl.mesh \in gpu)
    /\ pc' = "last"
    /\ UNCHANGED <<count, frames, case, configs, frame, handles, store, gpu,
                   uploadCount, loadLog, crashed, exitSent>>

\* one execution of the node: v, p, e, b are what the world holds for the view
\* input, the two pipelines and the shared bind group in this frame
NodeRun ==
    /\ pc = "render"
    /\ crashed = "none"
    /\ \E v \in Views, p \in BOOLEAN, e \in BOOLEAN, b \in BOOLEAN :
          LET out == run(v, p, e, b, entities, gpu, store)
          IN  /\ view' = v
              /\ pipelineReady' = p
              /\ eyeDomeReady' = e
              /\ bindGroupReady' = b
              /\ cmds' = out.cmds
              /\ result' = out.result
              /\ noPipelineLogs' = IF out.logPipeline = 1
                                   THEN Saturate(noPipelineLogs) ELSE noPipelineLogs
              /\ noBindGroupLogs' = IF out.logBindGroup = 1
                                    THEN Saturate(noBindGroupLogs)
                                    ELSE noBindGroupLogs
    /\ pc' = "last"
    /\ UNCHANGED <<count, frames, case, configs, frame, handles, entities, store, gpu,
                   uploadCount, loadLog, crashed, exitSent>>

\* the end of the frame: FrameCount is incremented, or the app exits
EndFrame ==
    /\ pc = "last"
    /\ crashed = "none"
    /\ IF exitSent
       THEN pc' = "exited" /\ UNCHANGED frame
       ELSE pc' = "update" /\ frame' = frame + 1
    /\ view' = Unextracted
    /\ pipelineReady' = FALSE
    /\ eyeDomeReady' = FALSE
    /\ bindGroupReady' = FALSE
    /\ cmds' = <<>>
    /\ result' = "none"
    /\ UNCHANGED <<count, frames, case, configs, handles, entities, store, gpu,
                   uploadCount, loadLog, crashed, exitSent, noPipelineLogs,
                   noBindGroupLogs>>

\* ------------------------------------------------------------ specification
Init ==
    /\ count \in 0..MaxCount
    /\ frames \in 0..MaxFrames
    /\ case \in Cases
    /\ configs = load_configs(count, frames, case)
    /\ frame = 0
    /\ pc = "update"
    /\ handles = <<>>
    /\ entities = <<>>
    /\ store = <<>>
    /\ gpu = {}
    /\ uploadCount = [h \in 1..MaxCount |-> 0]
    /\ loadLog = <<>>
    /\ crashed = "none"
    /\ exitSent = FALSE
    /\ view = Unextracted
    /\ pipelineReady = FALSE
    /\ eyeDomeReady = FALSE
    /\ bindGroupReady = FALSE
    /\ cmds = <<>>
    /\ result = "none"
    /\ noPipelineLogs = 0
    /\ noBindGroupLogs = 0

Next ==
    \/ spawn_replays
    \/ \E h \in 1..MaxCount : AssetServerResolve(h)
    \/ \E h \in 1..MaxCount : Upload(h)
    \/ Extract
    \/ NodeRun
    \/ EndFrame

Spec == Init /\ [][Next]_vars

\* ------------------------------------------------------------------ claims
\* run has been executed in this frame
RunDone == pc = "last"

\* the view, both pipelines and the shared bind group were there for run
AllReady ==
    /\ RunDone
    /\ view.kind = "view"
    /\ pipelineReady
    /\ eyeDomeReady
    /\ bindGroupReady

\* positions of the commands of one kind in this frame's encoding
At(op) == {k \in 1..Len(cmds) : cmds[k].op = op}

\* draws issued for asset handle h this frame
DrawsOf(h) == {k \in At("draw") : cmds[k].h = h}

\* entities that carry handle h
EntitiesOf(h) == {e \in 1..Len(entities) : entities[e].mesh = h}

CeilDiv(a, b) == (a + b - 1) \div b

\* C1: when view, pipelines and bind group are ready, run issues exactly one
\* draw per entity whose handle has a GPU resource, with 4 vertices and the
\* resource's point count as instance count, and none for any other entity; in
\* every frame each draw references an asset whose upload has completed.
C1_DrawsExactlyReadyEntities ==
    /\ \A k \in At("draw") :
          /\ cmds[k].h \in gpu
          /\ uploadCount[cmds[k].h] >= 1
          /\ poll(store, cmds[k].h) \in {"Resolved", "Direct"}
          /\ cmds[k].x = 4
          /\ cmds[k].y = PointsOf(store[cmds[k].h].path)
    /\ AllReady =>
          /\ \A e \in 1..Len(entities) :
                LET h == entities[e].mesh
                IN  IF h \in gpu
                    THEN Cardinality(DrawsOf(h)) = Cardinality(EntitiesOf(h))
                    ELSE DrawsOf(h) = {}
          /\ Cardinality(At("draw")) =
                Cardinality({e \in 1..Len(entities) : entities[e].mesh \in gpu})

\* C1 witness: two entities, the first with an uploaded 1-point asset drawn
\* once with instance count 1, the second not uploaded yet and not drawn
C1_Witness ==
    /\ AllReady
    /\ Len(entities) = 2
    /\ entities[1].mesh \in gpu
    /\ entities[2].mesh \notin gpu
    /\ Cardinality(At("draw")) = 1
    /\ \E k \in At("draw") :
          cmds[k].h = entities[1].mesh /\ cmds[k].x = 4 /\ cmds[k].y = 1

\* C2: with the rasterization or the eye-dome pipeline not ready, run returns
\* Ok having encoded nothing: no render pass begun, no draw, no compute pass.
C2_NoWorkWithoutPipelines ==
    (RunDone /\ view.kind = "view" /\ ~(pipelineReady /\ eyeDomeReady)) =>
        (result = "Ok" /\ cmds = <<>>)

C4_RasterThenCompute ==
    /\ \A k \in At("begin_compute_pass") \cup At("dispatch_workgroups") :
          /\ \E j \in At("end_render_pass") : j < k
          /\ Cardinality({j \in At("begin_render_pass") : j < k}) =
                Cardinality({j \in At("end_render_pass") : j < k})
    /\ \A k \in At("draw") : \A j \in At("end_render_pass") : k < j
    /\ AllReady =>
          /\ Cardinality(At("dispatch_workgroups")) = 1
          /\ Cardinality(At("begin_render_pass")) = 1
          /\ Cardinality(At("begin_compute_pass")) = 1
    /\ (RunDone /\ ~AllReady) => At("dispatch_workgroups") = {}

\* C4 witness: a frame with entities but no draw, and the one dispatch
C4_Witness ==
    /\ AllReady
    /\ Len(entities) = 2
    /\ At("draw") = {}
    /\ Cardinality(At("dispatch_workgroups")) = 1

\* C5: the dispatch grid is ceil(w/8) x ceil(h/8) x 1 for a w x h viewport.
C5_DispatchCoversViewport ==
    \A k \in At("dispatch_workgroups") :
        /\ cmds[k].x = CeilDiv(view.w, 8)
        /\ cmds[k].y = CeilDiv(view.h, 8)
        /\ cmds[k].z = 1

\* the behaviour the (auto, direct) table gives a valid config
TableBehaviour(auto, direct) ==
    IF auto THEN "register_path"
    ELSE IF direct THEN "insert_direct_gpu" ELSE "insert_resolved"

\* the store entry each behaviour must leave behind
EntryOf(behaviour) ==
    IF behaviour = "register_path" THEN [state |-> "Pending", kind |-> "path"]
    ELSE IF behaviour = "insert_resolved"
    THEN [state |-> "Resolved", kind |-> "tracked"]
    ELSE [state |-> "Direct", kind |-> "direct"]

ValidLoads == {k \in 1..Len(loadLog) : ~(loadLog[k].auto /\ loadLog[k].direct)}

C7_AutoDirectFailsFast ==
    \A k \in 1..Len(loadLog) :
        (loadLog[k].auto /\ loadLog[k].direct) =>
            /\ loadLog[k].behaviour = "panic_assert"
            /\ loadLog[k].handle = DefaultHandle
            /\ loadLog[k].stored = 0
            /\ crashed = "assert"
            /\ store = <<>>
            /\ gpu = {}
            /\ entities = <<>>

\* C7 witness: the assertion has fired in the one call of load
C7_Witness ==
    /\ crashed = "assert"
    /\ Len(loadLog) = 1
    /\ loadLog[1].auto
    /\ loadLog[1].direct

\* the draws of a frame are one per uploaded entity, with its own point count
DrawsCorrect ==
    \A e \in 1..Len(entities) :
        LET h == entities[e].mesh
        IN  IF h \in gpu
            THEN \E k \in At("draw") :
                    /\ DrawsOf(h) = {k}
                    /\ cmds[k].y = PointsOf(configs[entities[e].cfg].name)
            ELSE DrawsOf(h) = {}

\* C8: in scenario B (case 15: auto, early, delay, same path; two configs) no
\* frame crashes, and every ready frame draws each uploaded entity once with
\* its own point count.
C8_ScenarioBNoCrash ==
    (case = 15 /\ count = 2 /\ frames >= 1) =>
        /\ crashed = "none"
        /\ AllReady => DrawsCorrect

\* handles the store gave to registered paths
Registered == {h \in Handles : store[h].kind = "path"}

Registrations == {k \in 1..Len(loadLog) : loadLog[k].behaviour = "register_path"}

\* C9 as stated: the number of GPU resources equals the number of
\* registrations, after any sequence of registrations and resolutions.
C9_ResourcesEqualRegistrations ==
    Cardinality(gpu \cap Registered) = Cardinality(Registrations)

\* C9 amended: every registration through the auto path gets a handle of its
\* own, equal paths or not, and the number of GPU resources equals the number of
\* registrations that have resolved and been uploaded, one upload each.
C9_NoDeduplication ==
    /\ Cardinality(Registered) = Cardinality(Registrations)
    /\ \A j, k \in Registrations :
          j # k => loadLog[j].handle # loadLog[k].handle
    /\ gpu \cap Registered =
          {h \in Registered : store[h].state = "Resolved" /\ uploadCount[h] = 1}
    /\ (\A h \in Registered : store[h].state = "Resolved" /\ uploadCount[h] = 1) =>
          Cardinality(gpu \cap Registered) = Cardinality(Registrations)

\* C9 witness: one path registered twice, two handles, two GPU resources
C9_Witness ==
    /\ Cardinality(Registrations) = 2
    /\ \A h \in Registered : store[h].path = 0
    /\ Cardinality(gpu \cap Registered) = 2

\* C10: no handle ever gets a second GPU allocation.
C10_UploadAtMostOnce ==
    \A h \in 1..MaxCount :
        /\ uploadCount[h] <= 1
        /\ (h \in gpu) = (uploadCount[h] = 1)

\* C10 witness: an uploaded asset, its handle held and cloned into an entity,
\* drawn again in a later frame with still one allocation
C10_Witness ==
    /\ AllReady
    /\ frame >= 3
    /\ \E e \in 1..Len(entities) :
          /\ entities[e].mesh \in gpu
          /\ uploadCount[entities[e].mesh] = 1
          /\ entities[e].cfg <= Len(handles)
          /\ handles[entities[e].cfg] = entities[e].mesh
          /\ DrawsOf(entities[e].mesh) # {}

\* states a handle's entry never leaves
Terminal == {"Resolved", "Failed", "Direct"}

\* C11: a handle starts Pending (a registered path) or resolved (a synchronous
\* insert), moves only Pending -> Resolved or Pending -> Failed, and once it
\* is Resolved or Failed every later poll gives that same state.
C11_MonotonicHandleState ==
    [][/\ \A h \in 1..Len(store) :
             /\ h \in 1..Len(store')
             /\ poll(store, h) \in Terminal => poll(store', h) = poll(store, h)
             /\ poll(store, h) = "Pending" =>
                   poll(store', h) \in {"Pending", "Resolved", "Failed"}
       /\ \A h \in 1..Len(store') :
             h \notin 1..Len(store) =>
                 poll(store', h) = IF store'[h].kind = "path"
                                   THEN "Pending" ELSE store'[h].state
       /\ \A h \in 1..Len(store') :
             h \notin 1..Len(store) /\ store'[h].kind = "tracked" =>
                 poll(store', h) = "Resolved"]_vars

\* C11 witness: of two registered paths one has resolved and one has failed,
\* and the render node polls them in a later frame
C11_Witness ==
    /\ RunDone
    /\ \E h \in Registered, g \in Registered :
          /\ poll(store, h) = "Resolved"
          /\ poll(store, g) = "Failed"
          /\ \E k \in Registrations :
                loadLog[k].handle = h /\ loadLog[k].frame < frame

\* one of the prerequisites of drawing was missing when run was executed
NotReadyCase ==
    \/ ~(pipelineReady /\ eyeDomeReady)
    \/ ~bindGroupReady
    \/ view.kind # "view"
    \/ \A e \in 1..Len(entities) : entities[e].mesh \notin gpu

C13_LoggedOncePerCause ==
    /\ noPipelineLogs <= 1
    /\ noBindGroupLogs <= 1

\* the calls of load made for config i
LoadsOf(i) == {k \in 1..Len(loadLog) : loadLog[k].cfg = i}

\* C14: an early config is loaded at frame zero, its handle held, and the spawn
\* at frame delay reuses a clone of it without a second load; any other config
\* is loaded at frame delay, in the frame of its spawn.
C14_EarlyLoadsAtFrameZero ==
    /\ \A k \in 1..Len(loadLog) :
          IF configs[loadLog[k].cfg].early
          THEN loadLog[k].frame = 0 /\ loadLog[k].site = "early"
          ELSE /\ loadLog[k].frame = configs[loadLog[k].cfg].delay
               /\ loadLog[k].site = "spawn"
    /\ \A i \in 1..Len(configs) : Cardinality(LoadsOf(i)) <= 1
    /\ \A e \in 1..Len(entities) :
          /\ \E k \in LoadsOf(entities[e].cfg) :
                loadLog[k].handle = entities[e].mesh
          /\ configs[entities[e].cfg].early =>
                handles[entities[e].cfg] = entities[e].mesh

\* C15: run leaves the entity set, the handles' states and the GPU resources
\* as they are; entities and GPU resources are never taken away by any step; and
\* whenever run is executed with view, pipelines and bind group ready it draws
\* exactly the entities whose asset is uploaded by then, so an entity skipped in
\* one frame is drawn in the first ready frame after its upload and in every
\* ready frame after that.
C15_SkippedThenDrawn ==
    [][/\ gpu \subseteq gpu'
       /\ Len(entities) <= Len(entities')
       /\ \A e \in 1..Len(entities) : entities'[e] = entities[e]
       /\ pc = "render" =>
             /\ entities' = entities
             /\ store' = store
             /\ gpu' = gpu
             /\ handles' = handles
             /\ crashed' = "none"
             /\ result' # "Err" \/ view'.kind = "slot_error"
             /\ (view'.kind = "view" /\ pipelineReady' /\ eyeDomeReady'
                 /\ bindGroupReady') =>
                   \A e \in 1..Len(entities) :
                       (entities[e].mesh \in gpu) =
                       (\E k \in 1..Len(cmds') :
                           cmds'[k].op = "draw" /\ cmds'[k].h = entities[e].mesh)]_vars

\* C15 witness: frames after both spawns, the first entity drawn, the second
\* still pending, skipped and still there
C15_Witness ==
    /\ AllReady
    /\ Len(entities) = 2
    /\ \A e \in 1..2 : configs[entities[e].cfg].delay < frame
    /\ DrawsOf(entities[1].mesh) # {}
    /\ poll(store, entities[2].mesh) = "Pending"
    /\ DrawsOf(entities[2].mesh) = {}
    /\ result = "Ok"

\* the documented case table, rows 0..23: direct, auto, early, delay, same
DocTable ==
    <<<<FALSE, FALSE, FALSE, FALSE, FALSE>>,
      <<FALSE, FALSE, FALSE, FALSE, TRUE>>,
      <<FALSE, FALSE, FALSE, TRUE , FALSE>>,
      <<FALSE, FALSE, FALSE, TRUE , TRUE>>,
      <<FALSE, FALSE, TRUE , FALSE, FALSE>>,
      <<FALSE, FALSE, TRUE , FALSE, TRUE>>,
      <<FALSE, FALSE, TRUE , TRUE , FALSE>>,
      <<FALSE, FALSE, TRUE , TRUE , TRUE>>,
      <<FALSE, TRUE , FALSE, FALSE, FALSE>>,
      <<FALSE, TRUE , FALSE, FALSE, TRUE>>,
      <<FALSE, TRUE , FALSE, TRUE , FALSE>>,
      <<FALSE, TRUE , FALSE, TRUE , TRUE>>,
      <<FALSE, TRUE , TRUE , FALSE, FALSE>>,
      <<FALSE, TRUE , TRUE , FALSE, TRUE>>,
      <<FALSE, TRUE , TRUE , TRUE , FALSE>>,
      <<FALSE, TRUE , TRUE , TRUE , TRUE>>,
      <<TRUE , FALSE, FALSE, FALSE, FALSE>>,
      <<TRUE , FALSE, FALSE, FALSE, TRUE>>,
      <<TRUE , FALSE, FALSE, TRUE , FALSE>>,
      <<TRUE , FALSE, FALSE, TRUE , TRUE>>,
      <<TRUE , FALSE, TRUE , FALSE, FALSE>>,
      <<TRUE , FALSE, TRUE , FALSE, TRUE>>,
      <<TRUE , FALSE, TRUE , TRUE , FALSE>>,
      <<TRUE , FALSE, TRUE , TRUE , TRUE>>>>

\* C16: for every case of the table, load_configs gives count configs whose
\* flags are the table's row, with spawn frame frames*(i+1) under the delay
\* flag and frames otherwise, and name replay<i>.opd without the same flag and
\* replay0.opd with it; no row has auto and direct together.
C16_LoadConfigsMatchesTable ==
    /\ Len(configs) = count
    /\ case + 1 \in 1..Len(DocTable) =>
          LET row == DocTable[case + 1]
          IN  /\ ~(row[1] /\ row[2])
              /\ \A k \in 1..count :
                    LET i == k - 1
                    IN  /\ configs[k].direct = row[1]
                        /\ configs[k].auto = row[2]
                        /\ configs[k].early = row[3]
                        /\ configs[k].delay =
                              IF row[4] THEN frames * (i + 1) ELSE frames
                        /\ configs[k].name = IF row[5] THEN 0 ELSE i

\* C16 witness: case 22 (direct, early, delay) with two configs, the second
\* one spawned at 2*frames from replay1.opd
C16_Witness ==
    /\ case = 22
    /\ count = 2
    /\ frames = 1
    /\ configs[2].direct /\ ~configs[2].auto /\ configs[2].early
    /\ configs[2].delay = 2
    /\ configs[2].name = 1
    /\ frame = 2
    /\ Len(entities) = 2

\* the entities spawned for config i
SpawnedOf(i) == {e \in 1..Len(entities) : entities[e].cfg = i}

\* the update of frame f has been executed
UpdateDone(f) == frame > f \/ (frame = f /\ pc # "update")

\* load itself panicked: the assertion on auto && direct, or a failed read
LoadPanicked == crashed \in {"assert", "io"}

\* C17: every config causes exactly one call of load and exactly one spawn,
\* the spawn in the frame numbered delay and in no other frame, with the
\* handle load returned and point size 2 (stated for the runs in which load
\* does not panic).
C17_OneLoadOneSpawn ==
    ~LoadPanicked =>
        \A i \in 1..Len(configs) :
            /\ Cardinality(LoadsOf(i)) <= 1
            /\ Cardinality(SpawnedOf(i)) <= 1
            /\ UpdateDone(configs[i].delay) =>
                  /\ Cardinality(LoadsOf(i)) = 1
                  /\ Cardinality(SpawnedOf(i)) = 1
            /\ ~UpdateDone(configs[i].delay) => SpawnedOf(i) = {}
            /\ \A e \in SpawnedOf(i) :
                  /\ entities[e].point_size = 2
                  /\ \E k \in LoadsOf(i) : loadLog[k].handle = entities[e].mesh

\* C18: when the entity of an early config is spawned, handles[i] holds the
\* handle of a load made in that frame or before; the spawn never indexes a
\* handle list that is not populated, also for frames = 0.
C18_EarlySpawnFindsHandle ==
    /\ crashed # "index"
    /\ \A i \in 1..Len(configs) :
          (configs[i].early /\ UpdateDone(configs[i].delay) /\ ~LoadPanicked) =>
              /\ i <= Len(handles)
              /\ \E k \in LoadsOf(i) :
                    /\ loadLog[k].frame <= configs[i].delay
                    /\ loadLog[k].handle = handles[i]

\* C19: no spawned entity carries the default handle; its handle is the one a
\* call of load for its config returned, directly or through the held list.
C19_NoDefaultHandleSpawned ==
    \A e \in 1..Len(entities) :
        /\ entities[e].mesh # DefaultHandle
        /\ entities[e].mesh \in Handles
        /\ \E k \in LoadsOf(entities[e].cfg) :
              /\ loadLog[k].handle = entities[e].mesh
              /\ loadLog[k].behaviour \in
                    {"register_path", "insert_resolved", "insert_direct_gpu"}

\* C19 witness: a config without early was spawned with the handle of its own
\* load while its slot of the handle list holds the default placeholder
C19_Witness ==
    \E e \in 1..Len(entities) :
        /\ ~configs[entities[e].cfg].early
        /\ entities[e].cfg <= Len(handles)
        /\ handles[entities[e].cfg] = DefaultHandle
        /\ entities[e].mesh # DefaultHandle

\* the frame in which spawn_replays sends AppExit
ExitFrame == configs[1].delay * 3 + configs[Len(configs)].delay

\* C20: for count >= 1 and frames >= 1 the run goes on until AppExit is sent,
\* which happens exactly in frame 3*(first delay) + (last delay), after the
\* spawn frame of every config, with every entity spawned (stated for the runs
\* in which load does not panic).
C20_ExitAfterEverySpawn ==
    (count >= 1 /\ frames >= 1 /\ ~LoadPanicked) =>
        /\ crashed = "none"
        /\ frame <= ExitFrame
        /\ exitSent = UpdateDone(ExitFrame)
        /\ exitSent =>
              \A i \in 1..Len(configs) :
                  /\ configs[i].delay < ExitFrame
                  /\ SpawnedOf(i) # {}

====
